---- MODULE Spec2Model ----
(***************************************************************************)
(* Model of the IList class (bounded per-key history buffer) of MyPack.    *)
(* The store `data` is a JavaScript Map, modelled as a function whose      *)
(* DOMAIN is the set of keys that have an entry.  Stored values are        *)
(* arrays, modelled as sequences.  Every method of the class is one        *)
(* action; the outcome of the call is recorded in `last`.                  *)
(***************************************************************************)
EXTENDS Integers, Sequences, FiniteSets, TLC

\* ---- bounds of the model ----
MaxCap == 2          \* capacities 1..MaxCap are constructed
MaxPush == 2         \* the entries of the store have received at most MaxPush pushes
MaxRaw == 1          \* at most MaxRaw calls of rawSet
MaxNum == 2          \* the numbers handed to MathUtils.clamp are -MaxNum..MaxNum
MaxCoord == 1        \* block coordinates are 0..MaxCoord on every axis

\* ---- keys and values ----
Null == "<null>"            \* JavaScript null
Omitted == "<omitted>"      \* the argument was not passed (undefined)
RealKeys == {"p1", "p2"}    \* non-empty string keys
StringKeys == RealKeys \cup {""}     \* the arguments of a {string} key parameter
KeyArgs == StringKeys \cup {Null, Omitted}  \* the arguments of an optional key
Values == {1, 2}            \* two markers for the pushed values, which the code never inspects; 0 is the filler

\* JavaScript truthiness of a key: null, undefined and "" are falsy
Truthy(k) == k \notin {"", Null, Omitted}

\* new Array(n).fill(0)
Zeros(n) == [i \in 1..n |-> 0]

\* Map.prototype.set / delete on the model of a Map
MapSet(d, k, v) == [x \in (DOMAIN d) \cup {k} |-> IF x = k THEN v ELSE d[x]]
MapDelete(d, k) == [x \in (DOMAIN d) \ {k} |-> d[x]]
EmptyMap == [x \in {} |-> <<>>]

\* the value a caller hands to rawSet: an array longer than the capacity
RawValues(c) == {[i \in 1..(c + 2) |-> 1 + (i % 2)]}

\* ---- results of a call ----
RErr == [kind |-> "error", b |-> FALSE, n |-> 0, s |-> <<>>]
RUndef == [kind |-> "undefined", b |-> FALSE, n |-> 0, s |-> <<>>]
RBool(x) == [kind |-> "bool", b |-> x, n |-> 0, s |-> <<>>]
RNum(x) == [kind |-> "num", b |-> FALSE, n |-> x, s |-> <<>>]
RSeq(x) == [kind |-> "seq", b |-> FALSE, n |-> 0, s |-> x]

\* a call: the method, its key argument, the value pushed (0 unless the method
\* is push), its result and, for removeData and clear, the number of entries
\* the store held before the call (0 for the others)
Call(op, key, val, ret, before) ==
    [op |-> op, key |-> key, val |-> val, ret |-> ret, before |-> before]

VARIABLES
    maxSize,            \* this.maxSize
    data,               \* this.data
    most_recent_key,    \* this.most_recent_key
    last,               \* the most recent call: method, key argument, result
    pushed,             \* history: values pushed to each key since its entry was created
    keySource,          \* history: "new", "clear", "get" or "push": what last chose the key
    keyArg,             \* history: the key passed to that get or push
    rawCount            \* history: the number of rawSet calls so far

vars == <<maxSize, data, most_recent_key, last, pushed, keySource, keyArg, rawCount>>

NoPushes == [k \in RealKeys |-> <<>>]

\* the number of pushes recorded in a history p for the keys K
RECURSIVE TotalPushes(_, _)
TotalPushes(p, K) ==
    IF K = {} THEN 0
    ELSE LET k == CHOOSE x \in K : TRUE
         IN  Len(p[k]) + TotalPushes(p, K \ {k})

\* ---- the state of the other components ----
VARIABLES
    clampSt,            \* MathUtils.clamp: the arguments of a call and what it returned
    world,              \* the host world: region -> position -> block type id
    iblock,             \* the IBlock instance under test: its fields, or ok = FALSE for none
    call                \* the most recent IBlock / IDimension call: method, mode, error, result

\* the state of MathUtils.clamp while it is not in use
ClampIdle ==
    clampSt = [pc |-> "idle", value |-> 0, min |-> 0, max |-> 0,
               ret |-> RUndef, again |-> RUndef]

\* JavaScript values of the block and dimension code: t is the kind of value,
\* n the number, s the string, c the x, y, z properties of an object
HVal(t, n, s, c) == [t |-> t, n |-> n, s |-> s, c |-> c]
HNum(i) == HVal("number", i, "", <<>>)
HStr(x) == HVal("string", 0, x, <<>>)
HBool(b) == HVal("boolean", IF b THEN 1 ELSE 0, "", <<>>)
HUndef == HVal("undefined", 0, "", <<>>)
HNull == HVal("null", 0, "", <<>>)
HObj(cls, x, y, z) == HVal(cls, 0, "", <<x, y, z>>)

\* no IBlock instance, no call
NoBlock == [ok |-> FALSE, x |-> HUndef, y |-> HUndef, z |-> HUndef,
            dimension |-> HUndef, type |-> ""]
NoCall == [op |-> "none", mode |-> "", id |-> "", args |-> <<>>, err |-> "", ret |-> HUndef]

\* the host world: regions, positions and block type ids
Regions == {"overworld", "nether", "the_end"}
Coords == 0..MaxCoord
Cube == Coords \X Coords \X Coords
AIR == "minecraft:air"
STONE == "minecraft:stone"
AirWorld == [r \in Regions |-> [p \in Cube |-> AIR]]

\* the state of the block and dimension code while it is not in use
HostIdle ==
    /\ world = AirWorld
    /\ iblock = NoBlock
    /\ call = NoCall

hostVars == <<world, iblock, call>>
otherVars == <<clampSt, world, iblock, call>>
OthersIdle == ClampIdle /\ HostIdle

\* constructor(maxSize)
Init ==
    /\ maxSize \in 1..MaxCap
    /\ data = EmptyMap
    /\ most_recent_key = Null
    /\ last = Call("new", Omitted, 0, RUndef, 0)
    /\ pushed = NoPushes
    /\ keySource = "new"
    /\ keyArg = Null
    /\ rawCount = 0
    /\ OthersIdle

\* the read accessors
map == data
getMostRecentKey == most_recent_key

\* the value get(key) returns
getResult(d, c, key) == RSeq(IF key \in DOMAIN d THEN d[key] ELSE Zeros(c))

\* get that stores the default array it materialises
get_storesDefault(key) ==
    /\ most_recent_key' = key
    /\ last' = Call("get", key, 0, getResult(data, maxSize, key), 0)
    /\ data' = IF key \in DOMAIN data THEN data ELSE MapSet(data, key, Zeros(maxSize))
    /\ keySource' = "get"
    /\ keyArg' = key
    /\ UNCHANGED <<maxSize, pushed, rawCount>>

\* get that does not record the key
get_noRecord(key) ==
    /\ last' = Call("get", key, 0, getResult(data, maxSize, key), 0)
    /\ keySource' = "get"
    /\ keyArg' = key
    /\ UNCHANGED <<maxSize, data, most_recent_key, pushed, rawCount>>

\* get(key)
get(key) ==
    /\ most_recent_key' = key
    /\ last' = Call("get", key, 0, getResult(data, maxSize, key), 0)
    /\ keySource' = "get"
    /\ keyArg' = key
    /\ UNCHANGED <<maxSize, data, pushed, rawCount>>

\* push that replaces the whole store when it creates the entry of a new key
pushStore_resetsOthers(d, c, key, value) ==
    IF key \in DOMAIN d
    THEN LET currentData == Append(d[key], value)
         IN  MapSet(d, key, IF Len(currentData) > c THEN Tail(currentData)
                                                    ELSE currentData)
    ELSE MapSet(EmptyMap, key, Append(Zeros(c), value))

\* the body of push after the key check: the store after push(value, key)
pushStore(d, c, key, value) ==
    IF key \in DOMAIN d
    THEN LET currentData == Append(d[key], value)
         IN  MapSet(d, key, IF Len(currentData) > c THEN Tail(currentData)
                                                    ELSE currentData)
    ELSE MapSet(d, key, Append(Zeros(c), value))

\* what push(value, key = this.most_recent_key) does to an IList with store d,
\* capacity c and last-used key mrk: the new last-used key, the result, the new store
pushResult(d, c, mrk, value, key) ==
    LET k == IF key = Omitted THEN mrk ELSE key
        m == k
    IN  IF ~Truthy(m) /\ ~Truthy(k)
        THEN [mrk |-> m, ret |-> RErr, data |-> d]
        ELSE [mrk |-> m, ret |-> RUndef, data |-> pushStore(d, c, k, value)]

\* push(value, key = this.most_recent_key)
push(value, key) ==
    LET r == pushResult(data, maxSize, most_recent_key, value, key)
    IN  /\ most_recent_key' = r.mrk
        /\ data' = r.data
        /\ last' = Call("push", key, value, r.ret, 0)
        /\ IF r.ret = RErr
           THEN UNCHANGED pushed
           ELSE /\ TotalPushes(pushed, RealKeys) < MaxPush
                /\ pushed' = [pushed EXCEPT ![r.mrk] = Append(@, value)]
        /\ IF key = Omitted
           THEN UNCHANGED <<keySource, keyArg>>
           ELSE keySource' = "push" /\ keyArg' = key
        /\ UNCHANGED <<maxSize, rawCount>>

\* removeData that reports the entry of the key but leaves it in the store
removeData_noDelete(key) ==
    LET k == IF key = Omitted THEN Null ELSE key
        n == Cardinality(DOMAIN data)
    IN  /\ IF Truthy(k)
           THEN /\ last' = Call("removeData", key, 0, RBool(k \in DOMAIN data), n)
                /\ data' = data
                /\ pushed' = [x \in RealKeys |-> IF x \in DOMAIN data' THEN pushed[x] ELSE <<>>]
           ELSE /\ last' = Call("removeData", key, 0, RUndef, n)
                /\ data' = EmptyMap
                /\ pushed' = [x \in RealKeys |-> IF x \in DOMAIN data' THEN pushed[x] ELSE <<>>]
        /\ UNCHANGED <<maxSize, most_recent_key, keySource, keyArg, rawCount>>

\* removeData that, without a key, removes only the entry of the last-used key
removeData_onlyRecent(key) ==
    LET k == IF key = Omitted THEN Null ELSE key
        n == Cardinality(DOMAIN data)
    IN  /\ IF Truthy(k)
           THEN /\ last' = Call("removeData", key, 0, RBool(k \in DOMAIN data), n)
                /\ data' = MapDelete(data, k)
                /\ pushed' = [x \in RealKeys |-> IF x \in DOMAIN data' THEN pushed[x] ELSE <<>>]
           ELSE /\ last' = Call("removeData", key, 0, RUndef, n)
                /\ data' = MapDelete(data, most_recent_key)
                /\ pushed' = [x \in RealKeys |-> IF x \in DOMAIN data' THEN pushed[x] ELSE <<>>]
        /\ UNCHANGED <<maxSize, most_recent_key, keySource, keyArg, rawCount>>

\* removeData that also resets the last-used key, as clear does
removeData_resetsKey(key) ==
    LET k == IF key = Omitted THEN Null ELSE key
        n == Cardinality(DOMAIN data)
    IN  /\ IF Truthy(k)
           THEN /\ last' = Call("removeData", key, 0, RBool(k \in DOMAIN data), n)
                /\ data' = MapDelete(data, k)
                /\ pushed' = [x \in RealKeys |-> IF x \in DOMAIN data' THEN pushed[x] ELSE <<>>]
           ELSE /\ last' = Call("removeData", key, 0, RUndef, n)
                /\ data' = EmptyMap
                /\ pushed' = [x \in RealKeys |-> IF x \in DOMAIN data' THEN pushed[x] ELSE <<>>]
        /\ most_recent_key' = Null
        /\ UNCHANGED <<maxSize, keySource, keyArg, rawCount>>

\* removeData(key = null)
removeData(key) ==
    LET k == IF key = Omitted THEN Null ELSE key
        n == Cardinality(DOMAIN data)
    IN  /\ IF Truthy(k)
           THEN /\ last' = Call("removeData", key, 0, RBool(k \in DOMAIN data), n)
                /\ data' = MapDelete(data, k)
                /\ pushed' = [x \in RealKeys |-> IF x \in DOMAIN data' THEN pushed[x] ELSE <<>>]
           ELSE /\ last' = Call("removeData", key, 0, RUndef, n)
                /\ data' = EmptyMap
                /\ pushed' = [x \in RealKeys |-> IF x \in DOMAIN data' THEN pushed[x] ELSE <<>>]
        /\ UNCHANGED <<maxSize, most_recent_key, keySource, keyArg, rawCount>>

\* has that never raises the missing-key error
hasResult_noCheck(d, mrk, key) ==
    LET k == IF key = Omitted THEN mrk ELSE key
    IN  RBool((IF Truthy(k) THEN k ELSE mrk) \in DOMAIN d)

\* the result of has(key = this.most_recent_key)
hasResult(d, mrk, key) ==
    LET k == IF key = Omitted THEN mrk ELSE key
    IN  IF ~Truthy(k) /\ ~Truthy(mrk)
        THEN RErr
        ELSE RBool((IF Truthy(k) THEN k ELSE mrk) \in DOMAIN d)

\* has(key = this.most_recent_key)
has(key) ==
    /\ last' = Call("has", key, 0, hasResult(data, most_recent_key, key), 0)
    /\ UNCHANGED <<maxSize, data, most_recent_key, pushed, keySource, keyArg, rawCount>>

\* the result of getSize(key = this.most_recent_key)
getSizeResult(d, mrk, key) ==
    LET k == IF key = Omitted THEN mrk ELSE key
    IN  IF ~Truthy(k) /\ ~Truthy(mrk)
        THEN RErr
        ELSE RNum(IF k \in DOMAIN d THEN Len(d[k]) ELSE 0)

\* getSize(key = this.most_recent_key)
getSize(key) ==
    /\ last' = Call("getSize", key, 0, getSizeResult(data, most_recent_key, key), 0)
    /\ UNCHANGED <<maxSize, data, most_recent_key, pushed, keySource, keyArg, rawCount>>

\* rawGet(key)
rawGet(key) ==
    /\ last' = Call("rawGet", key, 0,
                    IF key \in DOMAIN data THEN RSeq(data[key]) ELSE RUndef, 0)
    /\ UNCHANGED <<maxSize, data, most_recent_key, pushed, keySource, keyArg, rawCount>>

\* rawSet that cuts the value down to the capacity
rawSet_trims(key, value) ==
    /\ rawCount < MaxRaw
    /\ data' = MapSet(data, key, SubSeq(value, 1, maxSize))
    /\ last' = Call("rawSet", key, 0, RUndef, 0)
    /\ pushed' = [k \in RealKeys |-> IF k = key THEN <<>> ELSE pushed[k]]
    /\ rawCount' = rawCount + 1
    /\ UNCHANGED <<maxSize, most_recent_key, keySource, keyArg>>

\* rawSet(key, value)
rawSet(key, value) ==
    /\ rawCount < MaxRaw
    /\ data' = MapSet(data, key, value)
    /\ last' = Call("rawSet", key, 0, RUndef, 0)
    /\ pushed' = [k \in RealKeys |-> IF k = key THEN <<>> ELSE pushed[k]]
    /\ rawCount' = rawCount + 1
    /\ UNCHANGED <<maxSize, most_recent_key, keySource, keyArg>>

\* clear that empties the store but keeps the last-used key
clear_keepsKey ==
    /\ data' = EmptyMap
    /\ last' = Call("clear", Omitted, 0, RUndef, Cardinality(DOMAIN data))
    /\ pushed' = NoPushes
    /\ keySource' = "clear"
    /\ keyArg' = Null
    /\ UNCHANGED <<maxSize, most_recent_key, rawCount>>

\* clear()
clear ==
    /\ data' = EmptyMap
    /\ most_recent_key' = Null
    /\ last' = Call("clear", Omitted, 0, RUndef, Cardinality(DOMAIN data))
    /\ pushed' = NoPushes
    /\ keySource' = "clear"
    /\ keyArg' = Null
    /\ UNCHANGED <<maxSize, rawCount>>

Next ==
    \/ \E key \in StringKeys : get(key) /\ UNCHANGED otherVars
    \/ \E value \in Values, key \in KeyArgs : push(value, key) /\ UNCHANGED otherVars
    \/ \E key \in KeyArgs : removeData(key) /\ UNCHANGED otherVars
    \/ \E key \in KeyArgs : has(key) /\ UNCHANGED otherVars
    \/ \E key \in KeyArgs : getSize(key) /\ UNCHANGED otherVars
    \/ \E key \in StringKeys : rawGet(key) /\ UNCHANGED otherVars
    \/ \E key \in StringKeys : \E value \in RawValues(maxSize) :
          rawSet(key, value) /\ UNCHANGED otherVars
    \/ clear /\ UNCHANGED otherVars

Spec == Init /\ [][Next]_vars

\* ---- MathUtils.clamp ----

\* the IList while another component is exercised: a new IList(1)
IListIdle ==
    /\ maxSize = 1
    /\ data = EmptyMap
    /\ most_recent_key = Null
    /\ last = Call("new", Omitted, 0, RUndef, 0)
    /\ pushed = NoPushes
    /\ keySource = "new"
    /\ keyArg = Null
    /\ rawCount = 0

\* JavaScript values handed to clamp: a number, NaN, and a value that is not a number
JNum(i) == [t |-> "number", n |-> i]
JNaN == [t |-> "NaN", n |-> 0]
JStr == [t |-> "string", n |-> 0]
ClampArgs == {JNum(i) : i \in (-MaxNum)..MaxNum} \cup {JNaN, JStr}

\* typeof v and isNaN(v)
TypeOf(v) == IF v.t \in {"number", "NaN"} THEN "number" ELSE v.t
IsNaN(v) == v.t = "NaN"

MathMax(a, b) == IF a >= b THEN a ELSE b
MathMin(a, b) == IF a <= b THEN a ELSE b

\* a thrown TypeError
RTypeError == [kind |-> "TypeError", b |-> FALSE, n |-> 0, s |-> <<>>]

\* clamp that accepts min > max
clamp_noRangeCheck(value, min, max) ==
    IF TypeOf(value) # "number" \/ TypeOf(min) # "number" \/ TypeOf(max) # "number"
    THEN RTypeError
    ELSE IF IsNaN(value) \/ IsNaN(min) \/ IsNaN(max)
    THEN RErr
    ELSE RNum(MathMax(min.n, MathMin(max.n, value.n)))

\* static clamp(value, min, max)
clamp(value, min, max) ==
    IF TypeOf(value) # "number" \/ TypeOf(min) # "number" \/ TypeOf(max) # "number"
    THEN RTypeError
    ELSE IF IsNaN(value) \/ IsNaN(min) \/ IsNaN(max)
    THEN RErr
    ELSE IF min.n > max.n
    THEN RErr
    ELSE RNum(MathMax(min.n, MathMin(max.n, value.n)))

\* a caller picks the three arguments
ClampInit ==
    /\ \E value \in ClampArgs, min \in ClampArgs, max \in ClampArgs :
          clampSt = [pc |-> "args", value |-> value, min |-> min, max |-> max,
                     ret |-> RUndef, again |-> RUndef]
    /\ IListIdle
    /\ HostIdle

\* the call clamp(value, min, max)
ClampCall ==
    /\ clampSt.pc = "args"
    /\ clampSt' = [clampSt EXCEPT !.pc = "called",
                                  !.ret = clamp(clampSt.value, clampSt.min, clampSt.max)]
    /\ UNCHANGED <<vars, hostVars>>

\* the call clamp(r, min, max) on the number r the first call returned
ClampAgain ==
    /\ clampSt.pc = "called"
    /\ clampSt.ret.kind = "num"
    /\ clampSt' = [clampSt EXCEPT !.pc = "twice",
                                  !.again = clamp(JNum(clampSt.ret.n), clampSt.min, clampSt.max)]
    /\ UNCHANGED <<vars, hostVars>>

ClampNext == ClampCall \/ ClampAgain

SpecClamp == ClampInit /\ [][ClampNext]_<<vars, otherVars>>

\* the arguments of the clamp call are numbers that are not NaN
ClampNumbers == \A a \in {clampSt.value, clampSt.min, clampSt.max} : a.t = "number"

\* C13: clamp rejects an argument that is not a number with a TypeError, a NaN
\* argument with an error and min > max with an error; for numbers with
\* min <= max it returns value when min <= value <= max, min when value < min
\* and max when value > max, so the result lies in min..max and clamping it
\* again returns it unchanged.
C13_Clamp ==
    LET value == clampSt.value
        min == clampSt.min
        max == clampSt.max
        ret == clampSt.ret
    IN  /\ clampSt.pc \in {"called", "twice"} =>
              /\ (\E a \in {value, min, max} : TypeOf(a) # "number") => ret = RTypeError
              /\ (\E a \in {value, min, max} : IsNaN(a)) => ret.kind \in {"error", "TypeError"}
              /\ (ClampNumbers /\ min.n > max.n) => ret = RErr
              /\ (ClampNumbers /\ min.n <= max.n) =>
                    /\ ret.kind = "num"
                    /\ min.n <= ret.n /\ ret.n <= max.n
                    /\ (min.n <= value.n /\ value.n <= max.n) => ret.n = value.n
                    /\ value.n < min.n => ret.n = min.n
                    /\ value.n > max.n => ret.n = max.n
        /\ clampSt.pc = "twice" => clampSt.again = ret

C13_Witness ==
    /\ clampSt.pc = "twice"
    /\ clampSt.min.n < clampSt.max.n
    /\ clampSt.value.n > clampSt.max.n
    /\ clampSt.ret = RNum(clampSt.max.n)
    /\ clampSt.again = clampSt.ret

\* ---- the host world ----

\* the positions calls are made with: every height of the box, at its corners
Pos == {0, MaxCoord} \X Coords \X {0, MaxCoord}

\* the two opposite corners of the box
Origin == <<0, 0, 0>>
FarCorner == <<MaxCoord, MaxCoord, MaxCoord>>

\* the worlds the host starts with: all air, or one stone block in the overworld
Worlds == {AirWorld} \cup
          {[AirWorld EXCEPT !["overworld"][p] = STONE] : p \in {Origin, FarCorner}}

\* reading property x (i = 1), y (2) or z (3) of a value; undefined where it has none
Prop(v, i) == IF v.c = <<>> THEN HUndef ELSE v.c[i]

\* reading a property of undefined or null throws a TypeError
CanRead(v) == v.t \notin {"undefined", "null"}

IsNum(v) == v.t = "number"
HNaN == HVal("NaN", 0, "", <<>>)

\* a + b on JavaScript values, for the numbers the model uses
HAdd(a, b) == IF IsNum(a) /\ IsNum(b) THEN HNum(a.n + b.n) ELSE HNaN

\* mc.world.getDimension(id) yields a region only for the name of a region
HostHasDimension(id) == id.t = "string" /\ id.s \in Regions

\* a location the host accepts: an object whose x, y and z are numbers
IsLocation(v) ==
    /\ v.c # <<>>
    /\ IsNum(v.c[1]) /\ IsNum(v.c[2]) /\ IsNum(v.c[3])

LocPos(v) == <<v.c[1].n, v.c[2].n, v.c[3].n>>

\* the block type the store holds at a position; air beyond the modelled box
BlockAt(w, r, p) == IF p \in Cube THEN w[r][p] ELSE AIR

\* dimension.getBlock(location) of the host
hostGetBlock(w, r, location) ==
    IF IsLocation(location)
    THEN [err |-> "", type |-> BlockAt(w, r, LocPos(location))]
    ELSE [err |-> "host", type |-> ""]

\* dimension.setBlockType(location, blockType) of the host: the location comes
\* first, the block type second; anything else is rejected
hostSetBlockType(w, r, location, blockType) ==
    IF IsLocation(location) /\ blockType.t = "string"
    THEN [err |-> "",
          w |-> IF LocPos(location) \in Cube
                THEN [w EXCEPT ![r][LocPos(location)] = blockType.s]
                ELSE w]
    ELSE [err |-> "host", w |-> w]

\* ---- IBlock ----

\* the modes handed to up and down: the three the documentation names, the
\* one the code has a case for, and one nobody names
Modes == {"block", "vector", "iblock", "isoblock", "cube"}

\* an IBlock as a JavaScript value
BlockVal(b) == HVal("IBlock", 0, b.type, <<b.x, b.y, b.z>>)

\* constructor(dimension = "overworld", vec3, y = null, z = null)
IBlock_new(w, a1, a2, a3, a4) ==
    LET dimension == IF a1 = HUndef THEN HStr("overworld") ELSE a1
        y == IF a3 = HUndef THEN HNull ELSE a3
        z == IF a4 = HUndef THEN HNull ELSE a4
        direct == y # HNull /\ z # HNull
    IN  IF ~direct /\ ~CanRead(a2)
        THEN [err |-> "TypeError", blk |-> NoBlock]
        ELSE
          LET tx == IF direct THEN a2 ELSE Prop(a2, 1)
              ty == IF direct THEN y ELSE Prop(a2, 2)
              tz == IF direct THEN z ELSE Prop(a2, 3)
              dim == IF dimension.t = "IDimension" THEN HStr(dimension.s) ELSE HUndef
          IN  IF ~HostHasDimension(dimension)
              THEN [err |-> "host", blk |-> NoBlock]
              ELSE
                LET got == hostGetBlock(w, dimension.s, HObj("object", tx, ty, tz))
                IN  IF got.err # ""
                    THEN [err |-> got.err, blk |-> NoBlock]
                    ELSE [err |-> "",
                          blk |-> [ok |-> TRUE, x |-> tx, y |-> ty, z |-> tz,
                                   dimension |-> dim, type |-> got.type]]

\* what a call that yields an IBlock returns
NewResult(r) == [err |-> r.err, ret |-> IF r.err = "" THEN BlockVal(r.blk) ELSE HUndef]

\* down(type = "block"): the returned value, the error and the block afterwards
down(blk, w, type0) ==
    LET type == IF type0 = Omitted THEN "block" ELSE type0
    IN  CASE type = "isoblock" ->
               LET r == NewResult(IBlock_new(w, blk.x, HAdd(blk.y, HNum(-1)), blk.z, HUndef))
               IN  [err |-> r.err, ret |-> r.ret, blk |-> blk]
          [] type = "block" ->
               \* new applied to the host's getDimension, which is no constructor
               [err |-> "TypeError", ret |-> HUndef, blk |-> blk]
          [] type = "vector" ->
               LET y1 == HAdd(blk.y, HNum(-1))
               IN  [err |-> "", ret |-> HObj("IVec3", blk.x, y1, blk.z),
                    blk |-> [blk EXCEPT !.y = y1]]
          [] OTHER ->
               [err |-> "Invalid type", ret |-> HUndef, blk |-> blk]

\* up with an unrecognised mode handled like "vector"
up_fallsThrough(blk, w, type0) ==
    LET type == IF type0 = Omitted THEN "block" ELSE type0
    IN  CASE type = "isoblock" ->
               LET r == NewResult(IBlock_new(w, blk.x, HAdd(blk.y, HNum(1)), blk.z, HUndef))
               IN  [err |-> r.err, ret |-> r.ret, blk |-> blk]
          [] type = "block" ->
               [err |-> "TypeError", ret |-> HUndef, blk |-> blk]
          [] OTHER ->
               LET y1 == HAdd(blk.y, HNum(1))
               IN  [err |-> "", ret |-> HObj("IVec3", blk.x, y1, blk.z),
                    blk |-> [blk EXCEPT !.y = y1]]

\* up(type = "block"): the returned value, the error and the block afterwards
up(blk, w, type0) ==
    LET type == IF type0 = Omitted THEN "block" ELSE type0
    IN  CASE type = "isoblock" ->
               LET r == NewResult(IBlock_new(w, blk.x, HAdd(blk.y, HNum(1)), blk.z, HUndef))
               IN  [err |-> r.err, ret |-> r.ret, blk |-> blk]
          [] type = "block" ->
               \* new applied to the host's getDimension, which is no constructor
               [err |-> "TypeError", ret |-> HUndef, blk |-> blk]
          [] type = "vector" ->
               LET y1 == HAdd(blk.y, HNum(1))
               IN  [err |-> "", ret |-> HObj("IVec3", blk.x, y1, blk.z),
                    blk |-> [blk EXCEPT !.y = y1]]
          [] OTHER ->
               [err |-> "Invalid type", ret |-> HUndef, blk |-> blk]

\* addVector(vector)
addVector(blk, w, vector) ==
    IF ~CanRead(vector)
    THEN [err |-> "TypeError", ret |-> HUndef]
    ELSE NewResult(IBlock_new(w, HAdd(blk.x, Prop(vector, 1)),
                                 HAdd(blk.y, Prop(vector, 2)),
                                 HAdd(blk.z, Prop(vector, 3)), HUndef))

\* the record of a call
HCall(op, mode, id, args, err, ret) ==
    [op |-> op, mode |-> mode, id |-> id, args |-> args, err |-> err, ret |-> ret]

\* the argument lists new IBlock is called with
VecVals(cls) == {HObj(cls, HNum(p[1]), HNum(p[2]), HNum(p[3])) : p \in Pos}
NewArgs(form) ==
    CASE form = "x,y,z" ->
           {<<HNum(p[1]), HNum(p[2]), HNum(p[3]), HUndef>> : p \in Pos}
      [] form = "dimension,vec3" ->
           {<<HStr(r), v, HUndef, HUndef>> : r \in Regions, v \in VecVals("IVec3")}
      [] form = "undefined,object" ->
           {<<HUndef, v, HUndef, HUndef>> : v \in VecVals("object")}
      [] form = "dimension,x,y,z" ->
           {<<HStr("overworld"), HNum(p[1]), HNum(p[2]), HNum(p[3])>> : p \in Pos}
      [] form = "IDimension,vec3" ->
           {<<HVal("IDimension", 0, "overworld", <<>>), v, HUndef, HUndef>> :
               v \in VecVals("IVec3")}
NewForms == {"x,y,z", "dimension,vec3", "undefined,object", "dimension,x,y,z",
             "IDimension,vec3"}

\* const block = new IBlock(...): on an error the block under test stays
NewIBlock(form, a) ==
    /\ a \in NewArgs(form)
    /\ LET r == IBlock_new(world, a[1], a[2], a[3], a[4])
       IN  /\ iblock' = IF r.err = "" THEN r.blk ELSE iblock
           /\ call' = HCall("new", form, "", a, r.err, NewResult(r).ret)
    /\ UNCHANGED <<world, vars, clampSt>>

\* block.up(type); up("vector") is bounded by the box of the model
IBlockUp(type) ==
    /\ iblock.ok
    /\ type = "vector" => iblock.y.n < MaxCoord
    /\ LET r == up(iblock, world, type)
       IN  /\ iblock' = r.blk
           /\ call' = HCall("up", type, "", <<>>, r.err, r.ret)
    /\ UNCHANGED <<world, vars, clampSt>>

\* block.down(type)
IBlockDown(type) ==
    /\ iblock.ok
    /\ type = "vector" => iblock.y.n > 0
    /\ LET r == down(iblock, world, type)
       IN  /\ iblock' = r.blk
           /\ call' = HCall("down", type, "", <<>>, r.err, r.ret)
    /\ UNCHANGED <<world, vars, clampSt>>

\* block.addVector(vector)
IBlockAddVector(vector) ==
    /\ iblock.ok
    /\ LET r == addVector(iblock, world, vector)
       IN  call' = HCall("addVector", "", "", <<vector>>, r.err, r.ret)
    /\ UNCHANGED <<iblock, world, vars, clampSt>>

\* the playerPlaceBlock handlers: before the placement with the coordinates,
\* after it with the coordinates and the id of the dimension
playerPlaceBlock(when, p) ==
    /\ LET id == IF when = "after" THEN HStr("minecraft:overworld") ELSE HUndef
           a == <<HNum(p[1]), HNum(p[2]), HNum(p[3]), id>>
           r == IBlock_new(world, a[1], a[2], a[3], a[4])
       IN  call' = HCall("playerPlaceBlock", when, "", a, r.err, NewResult(r).ret)
    /\ UNCHANGED <<iblock, world, vars, clampSt>>

BlockInit ==
    /\ world \in Worlds
    /\ iblock = NoBlock
    /\ call = NoCall
    /\ IListIdle
    /\ ClampIdle

BlockNext ==
    \/ \E form \in NewForms : \E a \in NewArgs(form) : NewIBlock(form, a)
    \/ \E type \in Modes \cup {Omitted} : IBlockUp(type)
    \/ \E type \in Modes \cup {Omitted} : IBlockDown(type)
    \/ \E vector \in VecVals("IVec3") : IBlockAddVector(vector)
    \/ \E when \in {"before", "after"} : \E p \in Pos : playerPlaceBlock(when, p)

SpecBlock == BlockInit /\ [][BlockNext]_<<vars, otherVars>>

\* ---- IDimension ----

\* block.startsWith("minecraft:")
StartsWithMinecraft(s) == s \in {STONE, AIR}

\* `minecraft:${block}` unless the prefix is there already
Prefixed(s) ==
    IF StartsWithMinecraft(s) THEN s
    ELSE CASE s = "stone" -> STONE
           [] s = "air" -> AIR

\* the start of getBlock, getBlockType and isBlockAir: three numbers or a plain
\* object become an IVec3
toIVec3(vec3, y0, z0) ==
    LET y == IF y0 = HUndef THEN HNull ELSE y0
        z == IF z0 = HUndef THEN HNull ELSE z0
        v == IF y # HNull /\ z # HNull THEN HObj("IVec3", vec3, y, z) ELSE vec3
    IN  IF v.t = "IVec3" THEN [err |-> "", v |-> v]
        ELSE IF ~CanRead(v) THEN [err |-> "TypeError", v |-> HUndef]
        ELSE [err |-> "", v |-> HObj("IVec3", Prop(v, 1), Prop(v, 2), Prop(v, 3))]

\* getBlock(vec3, y = null, z = null) of the dimension with the given id
IDimension_getBlock(w, id, vec3, y0, z0) ==
    LET v == toIVec3(vec3, y0, z0)
    IN  IF v.err # "" THEN [err |-> v.err, ret |-> HUndef]
        ELSE
          LET b == IBlock_new(w, Prop(v.v, 1), Prop(v.v, 2), Prop(v.v, 3), HUndef)
          IN  IF b.err # "" THEN [err |-> b.err, ret |-> HUndef]
              ELSE
                \* block.dimension = this.id; block.updateBlock()
                LET got == hostGetBlock(w, id, HObj("object", b.blk.x, b.blk.y, b.blk.z))
                IN  IF got.err # "" THEN [err |-> got.err, ret |-> HUndef]
                    \* block = block.getBlock() assigns to the constant block
                    ELSE [err |-> "TypeError", ret |-> HUndef]

\* getBlockType(vec3, y = null, z = null)
getBlockType(w, id, vec3, y0, z0) ==
    LET v == toIVec3(vec3, y0, z0)
    IN  IF v.err # "" THEN [err |-> v.err, ret |-> HUndef]
        ELSE
          LET block == IDimension_getBlock(w, id, v.v, HUndef, HUndef)
          IN  IF block.err # "" THEN [err |-> block.err, ret |-> HUndef]
              ELSE IF ~CanRead(block.ret) THEN [err |-> "TypeError", ret |-> HUndef]
              ELSE [err |-> "", ret |-> HStr(block.ret.s)]

\* isBlockAir(vec3, y = null, z = null)
isBlockAir(w, id, vec3, y0, z0) ==
    LET v == toIVec3(vec3, y0, z0)
    IN  IF v.err # "" THEN [err |-> v.err, ret |-> HUndef]
        ELSE
          LET block == IDimension_getBlock(w, id, v.v, HUndef, HUndef)
          IN  IF block.err # "" THEN [err |-> block.err, ret |-> HUndef]
              ELSE IF ~CanRead(block.ret) THEN [err |-> "TypeError", ret |-> HUndef]
              ELSE [err |-> "",
                    ret |-> HBool(block.ret.s = "minecraft:air" \/ block.ret.s = "air")]

\* setBlock(block, vec3, y = null, z = null): the error and the world afterwards
IDimension_setBlock(w, id, block, vec3, y0, z0) ==
    LET y == IF y0 = HUndef THEN HNull ELSE y0
        z == IF z0 = HUndef THEN HNull ELSE z0
        v1 == IF y # HNull /\ z # HNull THEN HObj("object", vec3, y, z) ELSE vec3
        v2 == IF v1.t = "IVec3" THEN HObj("object", Prop(v1, 1), Prop(v1, 2), Prop(v1, 3))
              ELSE v1
    IN  IF block.t # "string" THEN [err |-> "Block must be a string", w |-> w]
        ELSE IF ~CanRead(v2) THEN [err |-> "TypeError", w |-> w]
        ELSE
          \* this.dimension.setBlockType(block, { x, y, z }): the block id is
          \* handed over where the host takes the location
          LET r == hostSetBlockType(w, id, HStr(Prefixed(block.s)),
                                    HObj("object", Prop(v2, 1), Prop(v2, 2), Prop(v2, 3)))
          IN  IF r.err # "" THEN [err |-> "Failed to set block", w |-> w]
              ELSE [err |-> "", w |-> r.w]

\* the positions fill pushes, in the order of its three loops
blockPositions(start, end) ==
    LET n(i) == IF end[i] >= start[i] THEN end[i] - start[i] + 1 ELSE 0
    IN  [k \in 1..(n(1) * n(2) * n(3)) |->
            HObj("object",
                 HNum(start[1] + ((k - 1) \div (n(2) * n(3)))),
                 HNum(start[2] + (((k - 1) \div n(3)) % n(2))),
                 HNum(start[3] + ((k - 1) % n(3))))]

\* blockPositions.forEach(pos => this.setBlock(block, pos)) from position i on
RECURSIVE forEachSetBlock(_, _, _, _, _)
forEachSetBlock(w, id, block, ps, i) ==
    IF i > Len(ps) THEN [err |-> "", w |-> w]
    ELSE LET r == IDimension_setBlock(w, id, block, ps[i], HUndef, HUndef)
         IN  IF r.err # "" THEN r
             ELSE forEachSetBlock(r.w, id, block, ps, i + 1)

\* fill(block, startVec3, endVec3): the error and the world afterwards
fill(w, id, block, startVec3, endVec3) ==
    IF block.t # "string" THEN [err |-> "Block must be a string", w |-> w]
    ELSE IF startVec3.t # "IVec3" /\ startVec3.t # "object"
    THEN [err |-> "TypeError", w |-> w]
    ELSE
      \* only an IVec3 has clone(): a plain object as endVec3 fails in the try
      IF endVec3.t # "IVec3" THEN [err |-> "Failed to fill", w |-> w]
      ELSE
        LET r == forEachSetBlock(w, id, HStr(Prefixed(block.s)),
                                 blockPositions(LocPos(startVec3), LocPos(endVec3)), 1)
        IN  IF r.err # "" THEN [err |-> "Failed to fill", w |-> w]
            ELSE [err |-> "", w |-> r.w]

\* the three ways a position is handed to the dimension
PosForms == {"IVec3", "object", "x,y,z"}
PosArgs(form, p) ==
    IF form = "x,y,z" THEN <<HNum(p[1]), HNum(p[2]), HNum(p[3])>>
    ELSE <<HObj(form, HNum(p[1]), HNum(p[2]), HNum(p[3])), HUndef, HUndef>>

\* the position an argument list names
ArgPos(vec3, y, z) == IF y = HUndef THEN LocPos(vec3) ELSE <<vec3.n, y.n, z.n>>

\* the block arguments: an id without the prefix, one with it, and a value
\* that is no string
BlockArgs == {HStr("stone"), HStr(AIR), HNum(0)}

\* the positions the dimension is called with: two opposite corners of the box
\* and the position above the origin
DimPos == {Origin, FarCorner, <<0, MaxCoord, 0>>}

\* fill is called with start at any of these positions and end at a corner
FillEnds == {Origin, FarCorner}
FillVals(ps) == {HObj(cls, HNum(p[1]), HNum(p[2]), HNum(p[3])) :
                    cls \in {"IVec3", "object"}, p \in ps}

\* new IDimension(id).setBlock(block, ...)
DimSetBlock(id, block, form, p) ==
    /\ LET a == PosArgs(form, p)
           r == IDimension_setBlock(world, id, block, a[1], a[2], a[3])
       IN  /\ world' = r.w
           /\ call' = HCall("setBlock", form, id, <<block>> \o a, r.err, HUndef)
    /\ UNCHANGED <<iblock, vars, clampSt>>

\* new IDimension(id).getBlock(...)
DimGetBlock(id, form, p) ==
    /\ LET a == PosArgs(form, p)
           r == IDimension_getBlock(world, id, a[1], a[2], a[3])
       IN  call' = HCall("getBlock", form, id, a, r.err, r.ret)
    /\ UNCHANGED <<world, iblock, vars, clampSt>>

\* new IDimension(id).getBlockType(...)
DimGetBlockType(id, form, p) ==
    /\ LET a == PosArgs(form, p)
           r == getBlockType(world, id, a[1], a[2], a[3])
       IN  call' = HCall("getBlockType", form, id, a, r.err, r.ret)
    /\ UNCHANGED <<world, iblock, vars, clampSt>>

\* new IDimension(id).isBlockAir(...)
DimIsBlockAir(id, form, p) ==
    /\ LET a == PosArgs(form, p)
           r == isBlockAir(world, id, a[1], a[2], a[3])
       IN  call' = HCall("isBlockAir", form, id, a, r.err, r.ret)
    /\ UNCHANGED <<world, iblock, vars, clampSt>>

\* new IDimension(id).fill(block, startVec3, endVec3)
DimFill(id, block, startVec3, endVec3) ==
    /\ LET r == fill(world, id, block, startVec3, endVec3)
       IN  /\ world' = r.w
           /\ call' = HCall("fill", "", id, <<block, startVec3, endVec3>>, r.err, HUndef)
    /\ UNCHANGED <<iblock, vars, clampSt>>

DimInit ==
    /\ world \in Worlds
    /\ iblock = NoBlock
    /\ call = NoCall
    /\ IListIdle
    /\ ClampIdle

DimNext ==
    \/ \E id \in Regions : \E block \in BlockArgs : \E form \in PosForms : \E p \in DimPos :
          DimSetBlock(id, block, form, p)
    \/ \E id \in Regions : \E form \in PosForms : \E p \in DimPos : DimGetBlock(id, form, p)
    \/ \E id \in Regions : \E form \in PosForms : \E p \in DimPos : DimGetBlockType(id, form, p)
    \/ \E id \in Regions : \E form \in PosForms : \E p \in DimPos : DimIsBlockAir(id, form, p)
    \/ \E id \in Regions : \E block \in {HStr("stone"), HNum(0)} :
          \E startVec3 \in FillVals(DimPos) : \E endVec3 \in FillVals(FillEnds) :
             DimFill(id, block, startVec3, endVec3)

SpecDim == DimInit /\ [][DimNext]_<<vars, otherVars>>

\* ---- properties of IList ----

\* the calls made without a key argument
Keyless(c) == c.key = Omitted
\* the last n elements of a sequence s with Len(s) >= n
LastN(s, n) == SubSeq(s, Len(s) - n + 1, Len(s))
\* the keys whose entry was created and filled by push alone
PushedKeys == {k \in RealKeys : Len(pushed[k]) >= 1}

\* C1: as long as rawSet has not been called, the stored sequence of every
\* key has length at most the capacity.
C1_LengthAtMostCapacity ==
    rawCount = 0 => \A k \in DOMAIN data : Len(data[k]) <= maxSize

\* C2: a key whose entry was created by a push (one push or more) has
\* getSize equal to the capacity exactly.
C2_SizeIsCapacity ==
    rawCount = 0 =>
        \A k \in PushedKeys : getSizeResult(data, most_recent_key, k) = RNum(maxSize)

\* C3: after n > c pushes to a key that had no entry, get returns exactly the
\* last c pushed values in push order.
C3_LastCapacityValues ==
    rawCount = 0 =>
        \A k \in PushedKeys :
            Len(pushed[k]) > maxSize =>
                getResult(data, maxSize, k) = RSeq(LastN(pushed[k], maxSize))

\* C4: after m pushes, 1 <= m <= c, to a key that had no entry, the stored
\* sequence is c - m zeros followed by the m pushed values in order.
C4_ZeroPaddingThenValues ==
    rawCount = 0 =>
        \A k \in PushedKeys :
            Len(pushed[k]) <= maxSize =>
                /\ k \in DOMAIN data
                /\ data[k] = Zeros(maxSize - Len(pushed[k])) \o pushed[k]

\* the condition of C5 on one call
C5_Step ==
       (last'.op = "get" /\ last'.key \notin DOMAIN data) =>
          /\ last'.ret = RSeq(Zeros(maxSize))
          /\ map' = map
          /\ last'.key \notin DOMAIN map'
          /\ Truthy(last'.key) =>
                hasResult(data', most_recent_key', last'.key) = RBool(FALSE)
          /\ getMostRecentKey' = last'.key

\* C5: get(k) for a key without a stored entry returns c zeros, leaves the
\* store unchanged (k still has no entry, has(k) is false) and sets the
\* last-used key to k.
C5_GetAbsentKey == [][C5_Step]_vars

C5_Witness ==
    /\ last.op = "get"
    /\ last.key \in RealKeys
    /\ last.key \notin DOMAIN data
    /\ DOMAIN data # {}
    /\ last.ret = RSeq(Zeros(maxSize))
    /\ most_recent_key = last.key

\* the condition of C6 on one call
C6_Step ==
       keySource \in {"get", "push"} =>
          /\ (last'.op = "has" /\ Keyless(last')) =>
                /\ last'.ret = hasResult(data, most_recent_key, keyArg)
                /\ data' = data
          /\ (last'.op = "getSize" /\ Keyless(last')) =>
                /\ last'.ret = getSizeResult(data, most_recent_key, keyArg)
                /\ data' = data
          /\ (last'.op = "push" /\ Keyless(last')) =>
                LET e == pushResult(data, maxSize, most_recent_key, last'.val, keyArg)
                IN  last'.ret = e.ret /\ data' = e.data

C7_Step ==
       (/\ keySource \in {"new", "clear"}
        /\ last'.op \in {"push", "has", "getSize"}
        /\ Keyless(last')) =>
          (last'.ret = RErr /\ data' = data)

C8_Step ==
       (last'.op = "removeData" /\ Truthy(last'.key)) =>
          /\ last'.ret = RBool(last'.key \in DOMAIN data)
          /\ hasResult(data', most_recent_key', last'.key) = RBool(FALSE)

\* C8: removeData(k) with a key k returns true when k has an entry and false
\* when it has none, and has(k) is false right after it.
C8_RemoveReportsAndRemoves == [][C8_Step]_vars

C8_Witness ==
    /\ last.op = "removeData"
    /\ last.key \in RealKeys
    /\ last.ret = RBool(TRUE)
    /\ hasResult(data, most_recent_key, last.key) = RBool(FALSE)
    /\ DOMAIN data # {}

\* the condition of C9 on one call
C9_Step ==
       (last'.op = "removeData" /\ Keyless(last')) =>
          /\ DOMAIN map' = {}
          /\ \A k \in RealKeys :
                getSizeResult(data', most_recent_key', k) = RNum(0)
          /\ last'.ret = RUndef

\* C9: removeData() without a key leaves no entry at all: map() is empty,
\* getSize(k) is 0 for every key k, and the call returns no status.
C9_RemoveAllEmptiesStore == [][C9_Step]_vars

C9_Witness ==
    /\ last.op = "removeData" /\ Keyless(last)
    /\ last.before >= 2
    /\ DOMAIN data = {}

\* the condition of C10 on one call
C10_Step ==
       /\ last'.op = "clear" => (DOMAIN map' = {} /\ getMostRecentKey' = Null)
       /\ (/\ keySource = "clear"
           /\ last'.op \in {"push", "has", "getSize"}
           /\ Keyless(last')) => last'.ret = RErr

MapKeys == StringKeys \cup {Null}
\* the entry of key x is the same in the stores d and e
SameEntry(d, e, x) ==
    /\ x \in DOMAIN d <=> x \in DOMAIN e
    /\ x \in DOMAIN d => d[x] = e[x]

\* the condition of C11 on one call
C11_Step ==
    last'.op = "push" =>
        LET k == IF Keyless(last') THEN most_recent_key ELSE last'.key
        IN  IF last'.ret = RErr
            THEN data' = data
            ELSE /\ \A x \in MapKeys \ {k} : SameEntry(data, data', x)
                 /\ k \in DOMAIN data'
                 /\ data'[k][Len(data'[k])] = last'.val

\* C11: a push changes the stored sequence of the key it resolves to (the
\* explicit key, or the last-used key when none is passed) and of no other key.
C11_PushTouchesOneKey == [][C11_Step]_vars

C11_Witness ==
    /\ last.op = "push" /\ Keyless(last) /\ last.ret = RUndef
    /\ most_recent_key = "p2"
    /\ Len(pushed["p1"]) >= 1 /\ Len(pushed["p2"]) >= 1
    /\ "p1" \in DOMAIN data /\ "p2" \in DOMAIN data

\* C12: after n <= maxSize pushes to a key that had no entry, getSize of the
\* key returns n (1 after the first push, 2 after the second).
C12_SizeCountsPushes ==
    rawCount = 0 =>
        \A k \in PushedKeys :
            Len(pushed[k]) <= maxSize =>
                getSizeResult(data, most_recent_key, k) = RNum(Len(pushed[k]))

\* the condition of C19 on one call
C19_Step ==
    /\ last'.op = "rawSet" =>
          /\ last'.key \in DOMAIN data'
          /\ data'[last'.key] \in RawValues(maxSize)
          /\ Len(data'[last'.key]) > maxSize
          /\ \A x \in MapKeys \ {last'.key} : SameEntry(data, data', x)
          /\ getMostRecentKey' = getMostRecentKey
    /\ last'.op = "rawGet" =>
          /\ last'.ret = IF last'.key \in DOMAIN data THEN RSeq(data[last'.key])
                                                      ELSE RUndef
          /\ data' = data
          /\ getMostRecentKey' = getMostRecentKey

\* C19: rawSet stores the value as given, also when it is longer than the
\* capacity; rawGet returns the stored value, or undefined when the key has no
\* entry; neither changes the last-used key.
C19_RawAccess == [][C19_Step]_vars

C19_Witness ==
    /\ last.op = "rawGet"
    /\ last.ret.kind = "seq"
    /\ last.ret.s \in RawValues(maxSize)
    /\ Len(last.ret.s) > maxSize
    /\ most_recent_key \in RealKeys
    /\ last.key # most_recent_key

\* the condition of C20 on one call
C20_Step ==
    last'.op = "removeData" =>
        /\ getMostRecentKey' = getMostRecentKey
        /\ (Truthy(most_recent_key) /\ (last'.key = most_recent_key \/ Keyless(last'))) =>
              /\ hasResult(data', most_recent_key', Omitted) = RBool(FALSE)
              /\ \A v \in Values :
                    LET e == pushResult(data', maxSize, most_recent_key', v, Omitted)
                    IN  /\ e.ret = RUndef
                        /\ e.mrk = most_recent_key
                        /\ most_recent_key \in DOMAIN e.data

C21_Step ==
    (last'.op = "push" /\ last'.ret = RErr) =>
        /\ data' = data
        /\ maxSize' = maxSize
        /\ most_recent_key' = most_recent_key

\* C21: a push that fails with the missing-key error leaves the store, the
\* capacity and the last-used key as they were; after push(v, null) or
\* push(v, "") on a list whose last-used key is k the last-used key is still k.
C21_FailedPushChangesNothing == [][C21_Step]_vars

\* the condition of C22 on one call
C22_Step ==
    (last'.op = "removeData" /\ last'.key \in StringKeys) =>
        \A x \in MapKeys \ {last'.key} : SameEntry(data, data', x)

\* C22: removeData(k) with a string k, the empty string included, removes at
\* most the entry of k: the entry of every other key is as it was.
C22_RemoveTouchesOneKey == [][C22_Step]_vars

\* ---- properties of IBlock ----

\* the modes up and down have a case for
CaseLabels == {"isoblock", "block", "vector"}

C14_Step ==
    (call'.op \in {"up", "down"} /\ call'.mode \notin CaseLabels \cup {Omitted})
        => /\ call'.err = "Invalid type"
           /\ iblock'.x = iblock.x
           /\ iblock'.y = iblock.y
           /\ iblock'.z = iblock.z

\* C14: up(type) and down(type) with a mode string that is none of the modes
\* they recognise throw the 'Invalid type' error and leave the block's x, y
\* and z as they were.
C14_InvalidModeThrows == [][C14_Step]_<<vars, otherVars>>

\* up with an unrecognised mode has thrown, on a block at the top of the box
C14_Witness ==
    /\ call.op = "up"
    /\ call.mode = "cube"
    /\ call.err = "Invalid type"
    /\ iblock.ok
    /\ iblock.y = HNum(MaxCoord)
    /\ iblock.x = HNum(0)

\* C15: up and down accept the three modes their documentation names; called
\* with "iblock" they do not throw and return an IBlock.
C15_IblockModeAccepted ==
    (call.op \in {"up", "down"} /\ call.mode = "iblock")
        => /\ call.err = ""
           /\ call.ret.t = "IBlock"

\* C16: new IBlock(a, b, c) with three numbers does not throw and yields a
\* block with x = a, y = b, z = c taken from the overworld.
C16_ThreeNumbers ==
    (call.op = "new" /\ call.mode = "x,y,z")
        => /\ call.err = ""
           /\ call.ret.t = "IBlock"
           /\ call.ret.c = <<call.args[1], call.args[2], call.args[3]>>
           /\ call.ret.s = BlockAt(world, "overworld", <<call.args[1].n, call.args[2].n, call.args[3].n>>)

\* ---- properties of IDimension ----

\* the position and the block id of the most recent call
C17_Pos == IF call.op = "setBlock"
           THEN ArgPos(call.args[2], call.args[3], call.args[4])
           ELSE ArgPos(call.args[1], call.args[2], call.args[3])

\* C17: setBlock(b, p) with a block id and a position succeeds and stores the
\* prefixed id of b at p; getBlock(p) returns the block at p without throwing,
\* getBlockType(p) returns the id stored at p and isBlockAir(p) is true exactly
\* when that id is minecraft:air, for p as an IVec3, a plain object or three
\* numbers.
C17_SetThenRead ==
    /\ (call.op = "setBlock" /\ call.args[1].t = "string")
          => /\ call.err = ""
             /\ world[call.id][C17_Pos] = Prefixed(call.args[1].s)
    /\ call.op = "getBlock"
          => /\ call.err = ""
             /\ call.ret.s = world[call.id][C17_Pos]
    /\ call.op = "getBlockType"
          => /\ call.err = ""
             /\ call.ret = HStr(world[call.id][C17_Pos])
    /\ call.op = "isBlockAir"
          => /\ call.err = ""
             /\ call.ret = HBool(world[call.id][C17_Pos] = AIR)

\* p lies in the inclusive box from s to e
InBox(p, s, e) == \A i \in 1..3 : s[i] <= p[i] /\ p[i] <= e[i]

C18_Step ==
    (/\ call'.op = "fill"
     /\ call'.args[1].t = "string"
     /\ InBox(LocPos(call'.args[2]), LocPos(call'.args[2]), LocPos(call'.args[3])))
        => /\ call'.err = ""
           /\ \A r \in Regions : \A p \in Cube :
                 world'[r][p] =
                    IF r = call'.id /\ InBox(p, LocPos(call'.args[2]), LocPos(call'.args[3]))
                    THEN Prefixed(call'.args[1].s)
                    ELSE world[r][p]

\* C18: fill(b, start, end) with start and end as IVec3 or plain objects and
\* start <= end on every axis sets b at every position of the inclusive box
\* and changes no position outside it.
C18_FillsTheBox == [][C18_Step]_<<vars, otherVars>>

====
